---------------------------- MODULE Spec2Model ----------------------------
(***************************************************************************)
(* A model of the mail-address core of `brief`: the token validator, the   *)
(* Address, Mailbox and Mailboxes types with their validating              *)
(* constructors, their FromStr parsers and their Display formatters.       *)
(*                                                                         *)
(* A text is a sequence of one-character strings.  The operations are pure *)
(* functions; each specification draws an input in Init and its actions    *)
(* apply the operations to it: construct or parse, format the value that   *)
(* came out, and parse the formatted text again.                           *)
(***************************************************************************)
EXTENDS Integers, Sequences, FiniteSets, TLC

VARIABLES
    op,     \* the last operation applied ("none" before the first one)
    arg,    \* the input drawn in Init; it never changes
    res,    \* the Result of the last fallible operation
    val,    \* the value that was formatted (kept for the round trips)
    str     \* the text the formatter produced

vars == <<op, arg, res, val, str>>

-----------------------------------------------------------------------------
(* Bounds of the input sets.                                               *)

MaxPart == 2          \* length of a user, domain or name given to try_new
MaxText == 4          \* length of a text given to Address::from_str
MaxMailboxText == 7   \* length of a text given to Mailbox::from_str
MaxSegs == 3          \* comma-separated segments of a Mailboxes text
MaxBoxes == 2         \* mailboxes of a canonical Mailboxes text

(* All texts of at most n characters over the alphabet A.                  *)
Texts(A, n) == UNION {[1..k -> A] : k \in 0..n}

-----------------------------------------------------------------------------
(* Result<T, E> and Option<T>.                                             *)

Ok(v) == [ok |-> TRUE, val |-> v, err |-> <<>>]
Err(e) == [ok |-> FALSE, val |-> <<>>, err |-> e]

None == <<>>
Some(v) == <<v>>

NoResult == Err(<<"none">>)

-----------------------------------------------------------------------------
(* The string primitives of the standard library the parsers call.         *)

\* char::is_whitespace, as str::trim uses it (White_Space code points that
\* can occur in the texts of the model).
IsWhitespace(c) == c \in {" ", "\t", "\n", "\r"}

\* str::contains(char)
Contains(s, c) == \E i \in 1..Len(s) : s[i] = c

\* str::find(char): the index of the first occurrence, 0 for None
\* (indices are 1-based here; only their order matters to the callers).
Find(s, c) ==
    IF Contains(s, c)
    THEN CHOOSE i \in 1..Len(s) : s[i] = c /\ \A j \in 1..(i - 1) : s[j] # c
    ELSE 0

\* str::rfind(char): the index of the last occurrence, 0 for None
RFind(s, c) ==
    IF Contains(s, c)
    THEN CHOOSE i \in 1..Len(s) : s[i] = c /\ \A j \in (i + 1)..Len(s) : s[j] # c
    ELSE 0

\* str::split_once(char) on a text that contains the character:
\* <<before the first occurrence, after it>>
SplitOnce(s, c) ==
    LET i == Find(s, c)
    IN  <<SubSeq(s, 1, i - 1), SubSeq(s, i + 1, Len(s))>>

\* str::trim: without the leading and the trailing whitespace
Trim(s) ==
    LET keep == {i \in 1..Len(s) : ~IsWhitespace(s[i])}
    IN  IF keep = {} THEN <<>>
        ELSE LET first == CHOOSE i \in keep : \A j \in keep : i <= j
                 last == CHOOSE i \in keep : \A j \in keep : j <= i
             IN  SubSeq(s, first, last)

-----------------------------------------------------------------------------
(* validation.rs: the token validator.                                     *)

ForbiddenChars == {"@", "<", ">", "(", ")"}

IsForbidden(c) == c \in ForbiddenChars \/ IsWhitespace(c)

validate_part(part) ==
    IF Len(part) = 0 THEN Err("Empty")
    ELSE IF \E i \in 1..Len(part) : IsForbidden(part[i]) THEN Err("ForbiddenCharacter")
    ELSE Ok(<<>>)

-----------------------------------------------------------------------------
(* address.rs                                                              *)

Address_new_unchecked(user, domain) == [user |-> user, domain |-> domain]

\* A mutant of Address_try_new: the domain is validated before the user.
Address_try_new_domain_first(user, domain) ==
    IF ~validate_part(domain).ok
    THEN Err(<<"InvalidDomain", validate_part(domain).err>>)
    ELSE IF ~validate_part(user).ok
    THEN Err(<<"InvalidUser", validate_part(user).err>>)
    ELSE Ok(Address_new_unchecked(user, domain))

Address_try_new(user, domain) ==
    IF ~validate_part(user).ok
    THEN Err(<<"InvalidUser", validate_part(user).err>>)
    ELSE IF ~validate_part(domain).ok
    THEN Err(<<"InvalidDomain", validate_part(domain).err>>)
    ELSE Ok(Address_new_unchecked(user, domain))

\* A mutant of Address_fmt: the two fields written in the wrong order.
Address_fmt_swapped(a) == a.domain \o <<"@">> \o a.user

\* impl Display for Address: "{}@{}"
Address_fmt(a) == a.user \o <<"@">> \o a.domain

\* A mutant of RSplitN2: splitn, which cuts at the first separator.
SplitN2(s, c) ==
    LET i == Find(s, c)
    IN  <<SubSeq(s, i + 1, Len(s)), SubSeq(s, 1, i - 1)>>

\* s.rsplitn(2, c) on a text that contains c: the pieces from the right,
\* <<after the last occurrence, before it>>
RSplitN2(s, c) ==
    LET i == RFind(s, c)
    IN  <<SubSeq(s, i + 1, Len(s)), SubSeq(s, 1, i - 1)>>

\* impl FromStr for Address
Address_from_str(s) ==
    IF ~Contains(s, "@") THEN Err(<<"MissingUserOrDomain">>)
    ELSE LET split == RSplitN2(s, "@")
             domain == split[1]
             user == split[2]
         IN  Address_try_new(user, domain)

-----------------------------------------------------------------------------
(* The Address specification: try_new on a (user, domain) pair or from_str *)
(* on a text, then fmt of the Address and from_str of the formatted text.  *)

AddrChars == {"a", "b", "@", "(", " "}

AddrArgs ==
    {[kind |-> "parts", user |-> u, domain |-> d, text |-> <<>>] :
        u \in Texts(AddrChars, MaxPart), d \in Texts(AddrChars, MaxPart)}
    \cup
    {[kind |-> "text", user |-> <<>>, domain |-> <<>>, text |-> s] :
        s \in Texts(AddrChars, MaxText)}

InitAddr ==
    /\ arg \in AddrArgs
    /\ op = "none"
    /\ res = NoResult
    /\ val = None
    /\ str = <<>>

CallAddressTryNew ==
    /\ op = "none"
    /\ arg.kind = "parts"
    /\ res' = Address_try_new(arg.user, arg.domain)
    /\ op' = "try_new"
    /\ UNCHANGED <<arg, val, str>>

CallAddressFromStr ==
    /\ op = "none"
    /\ arg.kind = "text"
    /\ res' = Address_from_str(arg.text)
    /\ op' = "from_str"
    /\ UNCHANGED <<arg, val, str>>

CallAddressFmt ==
    /\ op \in {"try_new", "from_str"}
    /\ res.ok
    /\ val' = res.val
    /\ str' = Address_fmt(res.val)
    /\ op' = "fmt"
    /\ UNCHANGED <<arg, res>>

ReparseAddress ==
    /\ op = "fmt"
    /\ res' = Address_from_str(str)
    /\ op' = "reparse"
    /\ UNCHANGED <<arg, val, str>>

NextAddr ==
    \/ CallAddressTryNew
    \/ CallAddressFromStr
    \/ CallAddressFmt
    \/ ReparseAddress

SpecAddr == InitAddr /\ [][NextAddr]_vars

-----------------------------------------------------------------------------
(* Properties of Address.                                                  *)

\* C1: for every (user, domain) that Address::try_new accepts, formatting
\* the Address gives exactly user + "@" + domain, and parsing that text
\* succeeds with an Address that has the original user and domain.
C1_AddressRoundTrip ==
    (arg.kind = "parts" /\ op \in {"fmt", "reparse"}) =>
        /\ str = arg.user \o <<"@">> \o arg.domain
        /\ op = "reparse" =>
              /\ res.ok
              /\ res.val.user = arg.user
              /\ res.val.domain = arg.domain

C1_Witness ==
    /\ arg.kind = "parts"
    /\ op = "reparse"
    /\ arg.user = <<"a">>
    /\ arg.domain = <<"b", "a">>
    /\ res.ok

\* The text before the last '@' of s and the text after it, as the claim
\* words them.
BeforeLastAt(s) ==
    LET i == CHOOSE k \in 1..Len(s) : s[k] = "@" /\ \A j \in (k + 1)..Len(s) : s[j] # "@"
    IN  [n \in 1..(i - 1) |-> s[n]]

AfterLastAt(s) ==
    LET i == CHOOSE k \in 1..Len(s) : s[k] = "@" /\ \A j \in (k + 1)..Len(s) : s[j] # "@"
    IN  [n \in 1..(Len(s) - i) |-> s[i + n]]

\* C2: Address::from_str fails with MissingUserOrDomain on every text
\* without '@', and on every text with an '@' it returns what try_new
\* returns for (the text before the last '@', the text after the last '@').
C2_AddressParse ==
    (arg.kind = "text" /\ op = "from_str") =>
        IF \A i \in 1..Len(arg.text) : arg.text[i] # "@"
        THEN res = Err(<<"MissingUserOrDomain">>)
        ELSE res = Address_try_new(BeforeLastAt(arg.text), AfterLastAt(arg.text))

C2_Witness ==
    /\ arg.kind = "text"
    /\ op = "from_str"
    /\ arg.text = <<"a", "@", "@", "b">>
    /\ res = Err(<<"InvalidUser", "ForbiddenCharacter">>)

\* C3: Address::try_new validates the user before the domain: a rejected
\* user gives InvalidUser(e) whatever the domain is, an accepted user with a
\* rejected domain gives InvalidDomain(e), and only two accepted parts give
\* an Address, which holds exactly the given user and domain.
C3_TryNewOrder ==
    (arg.kind = "parts" /\ op = "try_new") =>
        LET vu == validate_part(arg.user)
            vd == validate_part(arg.domain)
        IN  /\ ~vu.ok => res = Err(<<"InvalidUser", vu.err>>)
            /\ (vu.ok /\ ~vd.ok) => res = Err(<<"InvalidDomain", vd.err>>)
            /\ (vu.ok /\ vd.ok) <=> res.ok
            /\ res.ok => (res.val.user = arg.user /\ res.val.domain = arg.domain)

C3_Witness ==
    /\ arg.kind = "parts"
    /\ op = "try_new"
    /\ arg.user = <<"(">>
    /\ arg.domain = <<>>
    /\ res = Err(<<"InvalidUser", "ForbiddenCharacter">>)

\* C4 as stated: Address::try_new with an empty user and a domain that
\* contains '@' fails with InvalidDomain(ForbiddenCharacter).
C4_Original ==
    (arg.kind = "parts" /\ op = "try_new" /\ arg.user = <<>>
        /\ \E i \in 1..Len(arg.domain) : arg.domain[i] = "@") =>
        res = Err(<<"InvalidDomain", "ForbiddenCharacter">>)

\* C4 as amended: Address::try_new with an empty user and a domain that
\* contains '@' fails with InvalidUser(Empty), the user being checked first.
C4_EmptyUserWins ==
    (arg.kind = "parts" /\ op = "try_new" /\ arg.user = <<>>
        /\ \E i \in 1..Len(arg.domain) : arg.domain[i] = "@") =>
        res = Err(<<"InvalidUser", "Empty">>)

C4_Witness ==
    /\ arg.kind = "parts"
    /\ op = "try_new"
    /\ arg.user = <<>>
    /\ arg.domain = <<"@", "a">>
    /\ ~res.ok

-----------------------------------------------------------------------------
(* mailbox.rs: Mailbox                                                     *)

Mailbox_try_new(name, address) ==
    IF name # None /\ ~validate_part(name[1]).ok
    THEN Err(<<"InvalidName", validate_part(name[1]).err>>)
    ELSE Ok([name |-> name, address |-> address])

\* impl Display for Mailbox: the name and a space when there is a name,
\* then "<{}>" around the formatted address
Mailbox_fmt(m) ==
    (IF m.name # None THEN m.name[1] \o <<" ">> ELSE <<>>)
        \o <<"<">> \o Address_fmt(m.address) \o <<">">>

\* impl From<ParseAddressError> for ParseMailboxError, as `?` applies it
FromAddressResult(r, name) ==
    IF r.ok THEN Ok([name |-> name, address |-> r.val])
    ELSE Err(<<"InvalidAddress", r.err>>)

\* A mutant of Mailbox_from_str: the order of the brackets is judged by the
\* last '>' instead of the first.
Mailbox_from_str_last_closing(s) ==
    LET left == Find(s, "<")
        right == RFind(s, ">")
    IN  IF left = 0 /\ right # 0 THEN Err(<<"MissingOpeningAngleBracket">>)
        ELSE IF left # 0 /\ right = 0 THEN Err(<<"MissingClosingAngleBracket">>)
        ELSE IF left # 0 /\ right # 0
        THEN IF left > right THEN Err(<<"WrongOrderAngleBrackets">>)
             ELSE LET name_str == SplitOnce(s, "<")[1]
                      rest == SplitOnce(s, "<")[2]
                      address_str == SplitOnce(rest, ">")[1]
                      name == IF name_str # <<>> THEN Some(name_str) ELSE None
                  IN  FromAddressResult(Address_from_str(address_str),
                          IF name # None THEN Some(Trim(name[1])) ELSE None)
        ELSE IF Contains(s, " ") THEN Err(<<"MissingAngleBrackets">>)
             ELSE FromAddressResult(Address_from_str(s), None)

\* A mutant of Mailbox_from_str: the name is kept as it stands, untrimmed.
Mailbox_from_str_untrimmed(s) ==
    LET left == Find(s, "<")
        right == Find(s, ">")
    IN  IF left = 0 /\ right # 0 THEN Err(<<"MissingOpeningAngleBracket">>)
        ELSE IF left # 0 /\ right = 0 THEN Err(<<"MissingClosingAngleBracket">>)
        ELSE IF left # 0 /\ right # 0
        THEN IF left > right THEN Err(<<"WrongOrderAngleBrackets">>)
             ELSE LET name_str == SplitOnce(s, "<")[1]
                      rest == SplitOnce(s, "<")[2]
                      address_str == SplitOnce(rest, ">")[1]
                      name == IF name_str # <<>> THEN Some(name_str) ELSE None
                  IN  FromAddressResult(Address_from_str(address_str), name)
        ELSE IF Contains(s, " ") THEN Err(<<"MissingAngleBrackets">>)
             ELSE FromAddressResult(Address_from_str(s), None)

\* impl FromStr for Mailbox: the match on (s.find('<'), s.find('>'))
Mailbox_from_str(s) ==
    LET left == Find(s, "<")
        right == Find(s, ">")
    IN  IF left = 0 /\ right # 0 THEN Err(<<"MissingOpeningAngleBracket">>)
        ELSE IF left # 0 /\ right = 0 THEN Err(<<"MissingClosingAngleBracket">>)
        ELSE IF left # 0 /\ right # 0
        THEN IF left > right THEN Err(<<"WrongOrderAngleBrackets">>)
             ELSE LET name_str == SplitOnce(s, "<")[1]
                      rest == SplitOnce(s, "<")[2]
                      address_str == SplitOnce(rest, ">")[1]
                      \* the emptiness test is on the untrimmed text
                      name == IF name_str # <<>> THEN Some(name_str) ELSE None
                  IN  FromAddressResult(Address_from_str(address_str),
                          IF name # None THEN Some(Trim(name[1])) ELSE None)
        ELSE IF Contains(s, " ") THEN Err(<<"MissingAngleBrackets">>)
             ELSE FromAddressResult(Address_from_str(s), None)

-----------------------------------------------------------------------------
(* The Mailbox specification: try_new on an optional name and an Address   *)
(* or from_str on a text, then fmt of the Mailbox and from_str of the      *)
(* formatted text.                                                         *)

MailboxChars == {"a", "@", "<", ">", " "}

NameChars == {"a", "b", "@", "(", " ", "\t"}

MailboxArgs ==
    {[kind |-> "parts", name |-> n, address |-> Address_new_unchecked(<<"a">>, <<"b">>),
      text |-> <<>>] :
        n \in {None} \cup {Some(x) : x \in Texts(NameChars, MaxPart)}}
    \cup
    {[kind |-> "text", name |-> None, address |-> Address_new_unchecked(<<>>, <<>>),
      text |-> s] :
        s \in Texts(MailboxChars, MaxMailboxText)}

InitMailbox ==
    /\ arg \in MailboxArgs
    /\ op = "none"
    /\ res = NoResult
    /\ val = None
    /\ str = <<>>

CallMailboxTryNew ==
    /\ op = "none"
    /\ arg.kind = "parts"
    /\ res' = Mailbox_try_new(arg.name, arg.address)
    /\ op' = "try_new"
    /\ UNCHANGED <<arg, val, str>>

CallMailboxFromStr ==
    /\ op = "none"
    /\ arg.kind = "text"
    /\ res' = Mailbox_from_str(arg.text)
    /\ op' = "from_str"
    /\ UNCHANGED <<arg, val, str>>

CallMailboxFmt ==
    /\ op \in {"try_new", "from_str"}
    /\ res.ok
    /\ val' = res.val
    /\ str' = Mailbox_fmt(res.val)
    /\ op' = "fmt"
    /\ UNCHANGED <<arg, res>>

ReparseMailbox ==
    /\ op = "fmt"
    /\ res' = Mailbox_from_str(str)
    /\ op' = "reparse"
    /\ UNCHANGED <<arg, val, str>>

NextMailbox ==
    \/ CallMailboxTryNew
    \/ CallMailboxFromStr
    \/ CallMailboxFmt
    \/ ReparseMailbox

SpecMailbox == InitMailbox /\ [][NextMailbox]_vars

-----------------------------------------------------------------------------
(* Properties of Mailbox.                                                  *)

\* The presence and the first position of a character, as the claims word
\* them.
Has(s, c) == \E i \in 1..Len(s) : s[i] = c

FirstIndex(s, c) == CHOOSE i \in 1..Len(s) : s[i] = c /\ \A j \in 1..(i - 1) : s[j] # c

\* C5: Mailbox::from_str classifies bracket errors by the presence and the
\* position of '<' and '>' alone: '>' without '<' gives
\* MissingOpeningAngleBracket, '<' without '>' gives
\* MissingClosingAngleBracket, both with the first '<' after the first '>'
\* give WrongOrderAngleBrackets, neither and a space gives
\* MissingAngleBrackets, and none of the four errors is returned otherwise.
C5_BracketErrors ==
    (arg.kind = "text" /\ op = "from_str") =>
        LET s == arg.text
            lt == Has(s, "<")
            gt == Has(s, ">")
        IN  /\ res = Err(<<"MissingOpeningAngleBracket">>) <=> (gt /\ ~lt)
            /\ res = Err(<<"MissingClosingAngleBracket">>) <=> (lt /\ ~gt)
            /\ res = Err(<<"WrongOrderAngleBrackets">>)
                  <=> (lt /\ gt /\ FirstIndex(s, "<") > FirstIndex(s, ">"))
            /\ res = Err(<<"MissingAngleBrackets">>) <=> (~lt /\ ~gt /\ Has(s, " "))

C5_Witness ==
    /\ arg.kind = "text"
    /\ op = "from_str"
    /\ arg.text = <<">", "a", "@", "a", "<", " ", ">">>
    /\ res = Err(<<"WrongOrderAngleBrackets">>)

\* C6 as stated: every Mailbox that Mailbox::try_new or Mailbox::from_str
\* returns has, when its name is present, a name that is non-empty and free
\* of forbidden characters.
C6_NameInvariant ==
    (op \in {"try_new", "from_str"} /\ res.ok /\ res.val.name # None) =>
        /\ res.val.name[1] # <<>>
        /\ \A i \in 1..Len(res.val.name[1]) : ~IsForbidden(res.val.name[1][i])

\* C9 as stated: in the bracketed branch of Mailbox::from_str the text
\* before the first '<' is trimmed, an empty trimmed name becomes None and
\* any other becomes Some(the trimmed text).
C9_EmptyNameIsNone ==
    (arg.kind = "text" /\ op = "from_str" /\ res.ok /\ Has(arg.text, "<")) =>
        LET before == [n \in 1..(FirstIndex(arg.text, "<") - 1) |-> arg.text[n]]
        IN  IF \A n \in 1..Len(before) : IsWhitespace(before[n])
            THEN res.val.name = None
            ELSE res.val.name = Some(Trim(before))

\* C10: for every text that Mailbox::from_str accepts with result m,
\* from_str of m's formatted text succeeds with the same name and the same
\* address as m.
C10_ParseFormatStable ==
    (arg.kind = "text" /\ op = "reparse") =>
        /\ res.ok
        /\ res.val.name = val.name
        /\ res.val.address = val.address

C10_Witness ==
    /\ arg.kind = "text"
    /\ op = "reparse"
    /\ arg.text = <<"a", "<", "a", "@", "a", ">", "a">>
    /\ str = <<"a", " ", "<", "a", "@", "a", ">">>
    /\ res.ok
    /\ val.name = Some(<<"a">>)

-----------------------------------------------------------------------------
(* mailbox.rs: Mailboxes, a Vec<Mailbox>                                   *)

\* str::split(pattern) for a one-character pattern: every piece between
\* two separators, the empty ones included; a text without the separator is
\* one piece.
RECURSIVE Split(_, _)
Split(s, c) ==
    IF ~Contains(s, c) THEN <<s>>
    ELSE <<SubSeq(s, 1, Find(s, c) - 1)>> \o Split(SubSeq(s, Find(s, c) + 1, Len(s)), c)

\* A mutant of Collect: best effort, the failing items are dropped.
CollectBestEffort(rs) ==
    LET good == SelectSeq(rs, LAMBDA r : r.ok)
    IN  Ok([i \in 1..Len(good) |-> good[i].val])

\* Iterator::collect::<Result<Vec<_>, _>>(): the values in order, or the
\* first error met
Collect(rs) ==
    IF \E i \in 1..Len(rs) : ~rs[i].ok
    THEN LET first == CHOOSE i \in 1..Len(rs) : ~rs[i].ok /\ \A j \in 1..(i - 1) : rs[j].ok
         IN  Err(rs[first].err)
    ELSE Ok([i \in 1..Len(rs) |-> rs[i].val])

\* impl FromStr for Mailboxes
Mailboxes_from_str(s) ==
    LET pieces == Split(s, ",")
    IN  Collect([i \in 1..Len(pieces) |-> Mailbox_from_str(Trim(pieces[i]))])

\* A mutant of Mailboxes_fmt: the separator written without its space.
RECURSIVE Mailboxes_fmt_comma_only(_)
Mailboxes_fmt_comma_only(ms) ==
    IF ms = <<>> THEN <<>>
    ELSE Mailbox_fmt(Head(ms))
            \o (IF Tail(ms) # <<>> THEN <<",">> ELSE <<>>)
            \o Mailboxes_fmt_comma_only(Tail(ms))

\* impl Display for Mailboxes: each mailbox, and ", " after it while
\* another one follows
RECURSIVE Mailboxes_fmt(_)
Mailboxes_fmt(ms) ==
    IF ms = <<>> THEN <<>>
    ELSE Mailbox_fmt(Head(ms))
            \o (IF Tail(ms) # <<>> THEN <<",", " ">> ELSE <<>>)
            \o Mailboxes_fmt(Tail(ms))

-----------------------------------------------------------------------------
(* The Mailboxes specification: from_str on a text given as its            *)
(* comma-separated segments, or on the canonical text of some mailboxes,   *)
(* then fmt of the list and from_str of the formatted text.                *)

\* The segments a text is made of: none of them contains a comma.
Segments ==
    { <<>>,
      <<" ">>,
      <<"\t", " ">>,
      <<"a">>,
      <<"@">>,
      <<"<">>,
      <<">">>,
      <<"a", " ", "b">>,
      <<"a", "@", "b">>,
      <<" ", "b", "@", "a", " ">>,
      <<"<", "a", "@", "b", ">">>,
      <<" ", "a", " ", "<", "b", "@", "a", ">">> }

\* The tokens of the canonical texts: those the validator accepts.
Tokens ==
    {t \in {<<"a">>, <<"b", "a">>, <<"a", ",", "b">>, <<"a", " ">>, <<>>} :
        validate_part(t).ok}

Boxes ==
    {[name |-> n, user |-> u, domain |-> d] :
        n \in {None} \cup {Some(x) : x \in Tokens}, u \in Tokens, d \in Tokens}

\* The texts joined with a separator between them.
RECURSIVE JoinWith(_, _)
JoinWith(texts, sep) ==
    IF texts = <<>> THEN <<>>
    ELSE IF Len(texts) = 1 THEN texts[1]
    ELSE texts[1] \o sep \o JoinWith(Tail(texts), sep)

\* `name <user@domain>` or `<user@domain>`
CanonicalBox(b) ==
    (IF b.name # None THEN b.name[1] \o <<" ">> ELSE <<>>)
        \o <<"<">> \o b.user \o <<"@">> \o b.domain \o <<">">>

CanonicalText(bs) == JoinWith([i \in 1..Len(bs) |-> CanonicalBox(bs[i])], <<",", " ">>)

ListArgs ==
    {[kind |-> "segs", segs |-> ss, boxes |-> <<>>, text |-> JoinWith(ss, <<",">>)] :
        ss \in UNION {[1..n -> Segments] : n \in 1..MaxSegs}}
    \cup
    {[kind |-> "boxes", segs |-> <<>>, boxes |-> bs, text |-> CanonicalText(bs)] :
        bs \in UNION {[1..n -> Boxes] : n \in 1..MaxBoxes}}

InitList ==
    /\ arg \in ListArgs
    /\ op = "none"
    /\ res = NoResult
    /\ val = None
    /\ str = <<>>

CallMailboxesFromStr ==
    /\ op = "none"
    /\ res' = Mailboxes_from_str(arg.text)
    /\ op' = "from_str"
    /\ UNCHANGED <<arg, val, str>>

CallMailboxesFmt ==
    /\ op = "from_str"
    /\ res.ok
    /\ val' = res.val
    /\ str' = Mailboxes_fmt(res.val)
    /\ op' = "fmt"
    /\ UNCHANGED <<arg, res>>

ReparseMailboxes ==
    /\ op = "fmt"
    /\ res' = Mailboxes_from_str(str)
    /\ op' = "reparse"
    /\ UNCHANGED <<arg, val, str>>

NextList ==
    \/ CallMailboxesFromStr
    \/ CallMailboxesFmt
    \/ ReparseMailboxes

SpecList == InitList /\ [][NextList]_vars

-----------------------------------------------------------------------------
(* Properties of Mailboxes.                                                *)

\* C7: Mailboxes::from_str parses every trimmed segment of the text as a
\* Mailbox and drops none: when every segment parses, the result is the
\* list of the parsed mailboxes, one per segment and in input order;
\* otherwise it is the error of the leftmost failing segment.  An empty or
\* whitespace-only segment makes the whole parse fail.
C7_ListParse ==
    (arg.kind = "segs" /\ op = "from_str") =>
        LET n == Len(arg.segs)
            parsed == [i \in 1..n |-> Mailbox_from_str(Trim(arg.segs[i]))]
            failing == {i \in 1..n : ~parsed[i].ok}
        IN  /\ failing = {} =>
                  /\ res.ok
                  /\ Len(res.val) = n
                  /\ n >= 1
                  /\ \A i \in 1..n : res.val[i] = parsed[i].val
            /\ failing # {} =>
                  \E i \in failing :
                      /\ \A j \in failing : i <= j
                      /\ res = Err(parsed[i].err)
            /\ (\E i \in 1..n : \A k \in 1..Len(arg.segs[i]) : IsWhitespace(arg.segs[i][k]))
                  => ~res.ok

C7_Witness ==
    /\ arg.kind = "segs"
    /\ op = "from_str"
    /\ arg.text = <<"a", "@", "b", ",", " ", "a", " ", "<", "b", "@", "a", ">", ",",
                    "<", "a", "@", "b", ">">>
    /\ res.ok
    /\ Len(res.val) = 3
    /\ res.val[2].name = Some(<<"a">>)

\* The mailbox a canonical `name <user@domain>` stands for.
BoxValue(b) == [name |-> b.name, address |-> [user |-> b.user, domain |-> b.domain]]

\* C8 as stated: for every text that is the ", "-join of n >= 1 canonical
\* mailbox texts whose names, users and domains the validator accepts,
\* Mailboxes::from_str gives the n mailboxes in that order, and formatting
\* the list gives the text back.
C8_Original ==
    (arg.kind = "boxes" /\ op \in {"from_str", "fmt"}) =>
        /\ res.ok
        /\ Len(res.val) = Len(arg.boxes)
        /\ \A i \in 1..Len(arg.boxes) : res.val[i] = BoxValue(arg.boxes[i])
        /\ op = "fmt" => str = arg.text

CommaFree(b) ==
    /\ ~Has(b.user, ",")
    /\ ~Has(b.domain, ",")
    /\ b.name # None => ~Has(b.name[1], ",")

\* C8 as amended: the same, for names, users and domains that the validator
\* accepts and that contain no ','.
C8_CanonicalRoundTrip ==
    (arg.kind = "boxes" /\ op \in {"from_str", "fmt"}
        /\ \A i \in 1..Len(arg.boxes) : CommaFree(arg.boxes[i])) =>
        /\ res.ok
        /\ Len(res.val) = Len(arg.boxes)
        /\ \A i \in 1..Len(arg.boxes) : res.val[i] = BoxValue(arg.boxes[i])
        /\ op = "fmt" => str = arg.text

C8_Witness ==
    /\ arg.kind = "boxes"
    /\ op = "fmt"
    /\ arg.text = <<"a", " ", "<", "b", "a", "@", "a", ">", ",", " ",
                    "<", "a", "@", "b", "a", ">">>
    /\ str = arg.text
    /\ Len(val) = 2

=============================================================================
